---- MODULE Spec2Model ----
(***************************************************************************)
(* Tabletop Notetaker: the recording pipeline (TabletopNotetakerApp over   *)
(* RecordingService and its capture thread), the transcription service and *)
(* the summary extractor, as state machines translated from the sources.   *)
(***************************************************************************)
EXTENDS Integers, Sequences, FiniteSets, TLC

\* ------------------------------------------------------------------ bounds

\* Number of startRecording calls a behaviour makes.
MaxStarts == 2

\* Number of chunks the audio device delivers in a behaviour.
MaxChunks == 2

\* Length of the segment lists drawn from all the sample segments.
MaxShortSegs == 3

\* Length of the segment lists drawn from the two long sample segments.
MaxLongSegs == 6
MaxRenderSegs == 2
MaxDumpSegs == 3
MaxLines == 2

\* ------------------------------------------------------------- recording

\* Python's None, for an optional path.
NoPath == "<none>"

\* The output_path arguments a caller passes (None or "", or a file name).
PathArgs == {NoPath, "a.wav", "./a.wav"}

\* str(Path(p)): pathlib drops a leading "./".
PathStr(p) == IF p = "./a.wav" THEN "a.wav" ELSE p

\* f"recording_{timestamp}.wav": one name per call (calls in distinct seconds).
AutoPath(n) == IF n = 1 THEN "recording_1.wav"
               ELSE IF n = 2 THEN "recording_2.wav"
               ELSE IF n = 3 THEN "recording_3.wav"
               ELSE "recording_n.wav"

VARIABLES
    \* RecordingService fields
    is_recording, output_path, frames, stream, audio, recording_thread,
    \* TabletopNotetakerApp fields
    app_is_recording, current_recording_path, recordings,
    \* the calling thread: position, the argument of the call in progress,
    \* the number of startRecording calls made
    pc, arg, starts,
    \* the capture threads, the streams the device has open, the number of
    \* chunks the device has delivered, the files written
    loops, openStreams, delivered, disk,
    \* history: the start() call that owns the buffer, the call in progress or
    \* last completed
    session, last

recVars == <<is_recording, output_path, frames, stream, audio, recording_thread,
             app_is_recording, current_recording_path, recordings,
             pc, arg, starts, loops, openStreams, delivered, disk, session,
             last>>

\* TranscriptionService / transcribe_audio: the audio files on disk, the
\* inputs of the last call and what it returned.
VARIABLES audio_files, tr_call, tr_result

trVars == <<audio_files, tr_call, tr_result>>

\* SummarizationService._extract_summary_data: the segment list handed in
\* and the summary data returned.
VARIABLES segments, summary_data

\* The interpreter process: the order in which list() has listed each set
\* of speakers since the process started. The order follows the hash seed
\* of the process, so it stays the same until the program is started again.
VARIABLE set_order

\* SummarizationService.summarize: the arguments of the last call and the
\* string it returned.
VARIABLE summary_out

sumVars == <<segments, summary_data, set_order, summary_out>>

\* save_transcript / _parse_transcript_file: the transcript handed to
\* save_transcript, the transcript file on disk and what the last parse read
\* and returned.
VARIABLES dump_transcript, transcript_file, parsed

dumpVars == <<dump_transcript, transcript_file, parsed>>

\* RecordingService.get_recording_duration: the number of chunks in the
\* buffer at the last call and the value it returned.
VARIABLE duration_call

vars == <<recVars, trVars, sumVars, dumpVars, duration_call>>

\* What the steps of one component leave alone.
nonRecVars == <<trVars, sumVars, dumpVars, duration_call>>
nonTrVars == <<recVars, sumVars, dumpVars, duration_call>>
nonSumVars == <<recVars, trVars, dumpVars, duration_call>>
nonDumpVars == <<recVars, trVars, sumVars, duration_call>>

Threads == 1..MaxStarts

NoChunk == [by |-> 0, from |-> 0, n |-> 0]

\* A thread that was never created.
NoLoop == [pc |-> "none", rs |-> 0, data |-> NoChunk, failed |-> FALSE]

IsAlive(t) == t # 0 /\ loops[t].pc \in {"check", "reading", "append"}

AliveLoops == {t \in Threads : IsAlive(t)}

NoCall == [op |-> "none", wasRecording |-> FALSE, appWasRecording |-> FALSE,
           prePath |-> NoPath, preAppPath |-> NoPath, preThread |-> 0,
           preSession |-> 0, preRecordings |-> 0,
           done |-> FALSE, ok |-> FALSE, raised |-> FALSE,
           svcPath |-> NoPath, appPath |-> NoPath,
           timedOut |-> FALSE, saveFailed |-> FALSE, wrote |-> FALSE,
           nframes |-> 0, aliveAtRead |-> {}]

\* The call record at the entry of a call: what the caller could observe.
Entry(op) == [NoCall EXCEPT !.op = op,
                            !.wasRecording = is_recording,
                            !.appWasRecording = app_is_recording,
                            !.prePath = output_path,
                            !.preAppPath = current_recording_path,
                            !.preThread = recording_thread,
                            !.preSession = session,
                            !.preRecordings = Len(recordings)]

\* self.sample_rate and self.chunk_size of a service made with the defaults.
sample_rate == 44100
chunk_size == 1024

\* get_recording_duration was not called yet.
NoDuration == [called |-> FALSE]

RecInit ==
    /\ is_recording = FALSE
    /\ output_path = NoPath
    /\ frames = <<>>
    /\ stream = 0
    /\ audio = "None"
    /\ recording_thread = 0
    /\ app_is_recording = FALSE
    /\ current_recording_path = NoPath
    /\ recordings = <<>>
    /\ pc = "idle"
    /\ arg = NoPath
    /\ starts = 0
    /\ loops = [t \in Threads |-> NoLoop]
    /\ openStreams = {}
    /\ delivered = 0
    /\ disk = <<>>
    /\ session = 0
    /\ last = NoCall
    /\ duration_call = NoDuration

\* No transcription is made in the recording specification.
TrIdle ==
    /\ audio_files = <<>>
    /\ tr_call = [op |-> "none"]
    /\ tr_result = [kind |-> "none yet"]

\* No summary is extracted in the recording and transcription
\* specifications.
NoSummary == [total_segments |-> -1]

NoOutput == [called |-> FALSE]

SumIdle ==
    /\ segments = <<>>
    /\ summary_data = NoSummary
    /\ set_order = <<>>
    /\ summary_out = NoOutput

\* No transcript file is written or parsed in the other specifications.
NoFile == [origin |-> "none", content |-> <<>>]

NoParse == [called |-> FALSE]

DumpIdle ==
    /\ dump_transcript = [segments |-> <<>>]
    /\ transcript_file = NoFile
    /\ parsed = NoParse

Init == RecInit /\ TrIdle /\ SumIdle /\ DumpIdle

\* --- TabletopNotetakerApp.start_recording / stop_recording: the parts
\* around the service call.

\* start_recording's tail: is_recording = True; return True, or the except
\* branch's return False.
AppStartReturn(raised) ==
    /\ app_is_recording' = IF raised THEN app_is_recording ELSE TRUE
    /\ last' = [last EXCEPT !.done = TRUE, !.ok = ~raised, !.raised = raised]
    /\ pc' = "idle"

\* stop_recording's tail: the service's result is dropped; the current path is
\* appended to recordings and returned. The except branch returns None.
AppStopReturn(raised, svcPath, rec) ==
    /\ app_is_recording' = IF raised THEN app_is_recording ELSE FALSE
    /\ recordings' = IF raised \/ current_recording_path = NoPath
                     THEN recordings
                     ELSE Append(recordings, current_recording_path)
    /\ last' = [rec EXCEPT !.done = TRUE, !.raised = raised,
                           !.svcPath = svcPath,
                           !.appPath = IF raised THEN NoPath
                                       ELSE current_recording_path]
    /\ pc' = "idle"

AppStartRecording(p) ==
    /\ pc = "idle"
    /\ starts < MaxStarts
    /\ starts' = starts + 1
    /\ current_recording_path' =
           IF p # NoPath THEN PathStr(p) ELSE AutoPath(starts + 1)
    /\ arg' = current_recording_path'
    /\ last' = Entry("start")
    /\ pc' = "start_check"
    /\ UNCHANGED <<nonRecVars, delivered, is_recording, output_path, frames, stream, audio,
                   recording_thread, app_is_recording, recordings, loops,
                   openStreams, disk, session>>

AppStopRecording ==
    /\ pc = "idle"
    /\ IF app_is_recording
       THEN /\ last' = Entry("stop")
            /\ pc' = "stop_check"
       ELSE /\ last' = [Entry("stop") EXCEPT !.done = TRUE]
            /\ pc' = "idle"
    /\ UNCHANGED <<nonRecVars, delivered, is_recording, output_path, frames, stream, audio,
                   recording_thread, app_is_recording, current_recording_path,
                   recordings, arg, starts, loops, openStreams, disk, session>>

\* --- RecordingService.start_recording

\* if self.is_recording: return; self.output_path = ...; self.frames = []
StartCheck ==
    /\ pc = "start_check"
    /\ IF is_recording
       THEN /\ AppStartReturn(FALSE)
            /\ UNCHANGED <<output_path, frames, session>>
       ELSE /\ output_path' = arg
            /\ frames' = <<>>
            /\ session' = starts
            /\ pc' = "start_flag"
            /\ UNCHANGED <<app_is_recording, last>>
    /\ UNCHANGED <<nonRecVars, delivered, is_recording, stream, audio, recording_thread,
                   current_recording_path, recordings, arg, starts, loops,
                   openStreams, disk>>

\* self.is_recording = True
StartFlag ==
    /\ pc = "start_flag"
    /\ is_recording' = TRUE
    /\ pc' = "start_open"
    /\ UNCHANGED <<nonRecVars, delivered, output_path, frames, stream, audio, recording_thread,
                   app_is_recording, current_recording_path, recordings, arg,
                   starts, loops, openStreams, disk, session, last>>

\* self.audio = pyaudio.PyAudio(); self.stream = self.audio.open(...)
\* Either call may raise (no device, device busy); the exception leaves
\* start_recording and is caught by the app's except branch.
StartOpen ==
    /\ pc = "start_open"
    /\ \/ /\ audio' = "active"
          /\ stream' = starts
          /\ openStreams' = openStreams \cup {starts}
          /\ pc' = "start_thread"
          /\ UNCHANGED <<app_is_recording, last>>
       \/ /\ audio' = "active"
          /\ AppStartReturn(TRUE)
          /\ UNCHANGED <<stream, openStreams>>
       \/ /\ AppStartReturn(TRUE)
          /\ UNCHANGED <<audio, stream, openStreams>>
    /\ UNCHANGED <<nonRecVars, delivered, is_recording, output_path, frames,
                   recording_thread, current_recording_path, recordings, arg,
                   starts, loops, disk, session>>

\* self.recording_thread = threading.Thread(...); start(); return
StartThread ==
    /\ pc = "start_thread"
    /\ recording_thread' = starts
    /\ loops' = [loops EXCEPT ![starts] = [NoLoop EXCEPT !.pc = "check"]]
    /\ AppStartReturn(FALSE)
    /\ UNCHANGED <<nonRecVars, delivered, is_recording, output_path, frames, stream, audio,
                   current_recording_path, recordings, arg, starts,
                   openStreams, disk, session>>

\* --- RecordingService._record_loop, one thread per started session

\* while self.is_recording: ... self.stream.read(...) is entered; a read of a
\* stream that is already closed raises at once and the loop breaks.
LoopCheck(t) ==
    /\ loops[t].pc = "check"
    /\ loops' = [loops EXCEPT ![t] =
           IF is_recording /\ stream \in openStreams
           THEN [@ EXCEPT !.pc = "reading", !.rs = stream]
           ELSE IF is_recording
           THEN [@ EXCEPT !.pc = "done", !.failed = TRUE]
           ELSE [@ EXCEPT !.pc = "done"]]
    /\ UNCHANGED <<nonRecVars, delivered, is_recording, output_path, frames, stream, audio,
                   recording_thread, app_is_recording, current_recording_path,
                   recordings, pc, arg, starts, openStreams, disk, session,
                   last>>

\* data = self.stream.read(self.chunk_size) returns a chunk. A read that was
\* blocked while its stream got closed may still return data or raise.
LoopReadOk(t) ==
    /\ loops[t].pc = "reading"
    /\ delivered < MaxChunks
    /\ delivered' = delivered + 1
    /\ loops' = [loops EXCEPT ![t] =
           [@ EXCEPT !.pc = "append",
                     !.data = [by |-> t, from |-> loops[t].rs,
                               n |-> delivered + 1]]]
    /\ UNCHANGED <<nonRecVars, is_recording, output_path, frames, stream, audio,
                   recording_thread, app_is_recording, current_recording_path,
                   recordings, pc, arg, starts, openStreams, disk, session,
                   last>>

\* The read raises: except Exception: print; break.
LoopReadFail(t) ==
    /\ loops[t].pc = "reading"
    /\ loops' = [loops EXCEPT ![t] =
           [@ EXCEPT !.pc = "done", !.failed = TRUE]]
    /\ UNCHANGED <<nonRecVars, delivered, is_recording, output_path, frames, stream, audio,
                   recording_thread, app_is_recording, current_recording_path,
                   recordings, pc, arg, starts, openStreams, disk, session,
                   last>>

\* self.frames.append(data)
LoopAppend(t) ==
    /\ loops[t].pc = "append"
    /\ frames' = Append(frames, loops[t].data)
    /\ loops' = [loops EXCEPT ![t] = [@ EXCEPT !.pc = "check", !.data = NoChunk]]
    /\ UNCHANGED <<nonRecVars, delivered, is_recording, output_path, stream, audio, recording_thread,
                   app_is_recording, current_recording_path, recordings, pc,
                   arg, starts, openStreams, disk, session, last>>

\* --- RecordingService.stop_recording

\* if not self.is_recording: return None; self.is_recording = False
StopCheck ==
    /\ pc = "stop_check"
    /\ IF ~is_recording
       THEN /\ AppStopReturn(FALSE, NoPath, last)
            /\ UNCHANGED is_recording
       ELSE /\ is_recording' = FALSE
            /\ pc' = "stop_join"
            /\ UNCHANGED <<app_is_recording, recordings, last>>
    /\ UNCHANGED <<nonRecVars, delivered, output_path, frames, stream, audio, recording_thread,
                   current_recording_path, arg, starts, loops, openStreams,
                   disk, session>>

\* if self.recording_thread and self.recording_thread.is_alive():
\*     self.recording_thread.join(timeout=2.0)
\* The join returns when the thread has ended, or after 2 s while the thread
\* is still blocked in a device read.
StopJoin ==
    /\ pc = "stop_join"
    /\ \/ ~IsAlive(recording_thread)
       \/ /\ recording_thread # 0
          /\ loops[recording_thread].pc = "reading"
    /\ last' = [last EXCEPT !.timedOut = IsAlive(recording_thread)]
    /\ pc' = "stop_close"
    /\ UNCHANGED <<nonRecVars, delivered, is_recording, output_path, frames, stream, audio,
                   recording_thread, app_is_recording, current_recording_path,
                   recordings, arg, starts, loops, openStreams, disk, session>>

\* if self.stream: stop_stream(); close()  -- which may raise
\* if self.audio: terminate()
StopClose ==
    /\ pc = "stop_close"
    /\ \/ /\ openStreams' = openStreams \ {stream}
          /\ audio' = IF audio = "None" THEN audio ELSE "terminated"
          /\ pc' = "stop_save"
          /\ UNCHANGED <<app_is_recording, recordings, last>>
       \/ /\ stream # 0
          /\ AppStopReturn(TRUE, NoPath, last)
          /\ UNCHANGED <<openStreams, audio>>
    /\ UNCHANGED <<nonRecVars, delivered, is_recording, output_path, frames, stream, recording_thread,
                   current_recording_path, arg, starts, loops, disk, session>>

\* _save_recording: wave.open(output_path, 'wb') ... writeframes(b''.join(frames))
SaveRecording(path) == (path :> frames) @@ disk

\* if self.output_path and self.frames: try: save; return self.output_path
\*                                      except: print
\* return None
StopSave ==
    /\ pc = "stop_save"
    /\ IF output_path # NoPath /\ frames # <<>>
       THEN \/ /\ audio # "None"
               /\ disk' = SaveRecording(output_path)
               /\ AppStopReturn(FALSE, output_path,
                      [last EXCEPT !.wrote = TRUE, !.nframes = Len(frames),
                                   !.aliveAtRead = AliveLoops])
            \/ /\ disk' = disk
               /\ AppStopReturn(FALSE, NoPath,
                      [last EXCEPT !.saveFailed = TRUE,
                                   !.nframes = Len(frames),
                                   !.aliveAtRead = AliveLoops])
       ELSE /\ disk' = disk
            /\ AppStopReturn(FALSE, NoPath, last)
    /\ UNCHANGED <<nonRecVars, delivered, is_recording, output_path, frames, stream, audio,
                   recording_thread, current_recording_path, arg, starts,
                   loops, openStreams, session>>

\* get_recording_duration without the chunk size.
get_recording_duration_in_chunks(fr) ==
    IF fr = <<>>
    THEN [num |-> 0, den |-> 1]
    ELSE [num |-> Len(fr), den |-> sample_rate]

\* get_recording_duration() for the buffer fr. The float returned is kept as
\* the exact fraction num / den.
get_recording_duration(fr) ==
    IF fr = <<>>
    THEN [num |-> 0, den |-> 1]
    ELSE [num |-> Len(fr) * chunk_size, den |-> sample_rate]

\* The calling thread asks for the duration between two calls of start and
\* stop; capture loops may be running.
GetRecordingDuration ==
    /\ pc = "idle"
    /\ duration_call' = [called |-> TRUE, nframes |-> Len(frames),
                         value |-> get_recording_duration(frames)]
    /\ UNCHANGED <<recVars, trVars, sumVars, dumpVars>>

Next ==
    \/ \E p \in PathArgs : AppStartRecording(p)
    \/ AppStopRecording
    \/ StartCheck
    \/ StartFlag
    \/ StartOpen
    \/ StartThread
    \/ StopCheck
    \/ StopJoin
    \/ StopClose
    \/ StopSave
    \/ GetRecordingDuration
    \/ \E t \in Threads : LoopCheck(t)
    \/ \E t \in Threads : LoopReadOk(t)
    \/ \E t \in Threads : LoopReadFail(t)
    \/ \E t \in Threads : LoopAppend(t)

Spec == Init /\ [][Next]_vars

\* ----------------------------------------------------------------- text

\* A Python str is modelled as the sequence of its characters.

UpperCase ==
    <<"A", "B", "C", "D", "E", "F", "G", "H", "I", "J", "K", "L", "M", "N",
      "O", "P", "Q", "R", "S", "T", "U", "V", "W", "X", "Y", "Z">>

LowerCase ==
    <<"a", "b", "c", "d", "e", "f", "g", "h", "i", "j", "k", "l", "m", "n",
      "o", "p", "q", "r", "s", "t", "u", "v", "w", "x", "y", "z">>

Digits ==
    <<"0", "1", "2", "3", "4", "5", "6", "7", "8", "9">>

\* str.strip() removes these from both ends.
Whitespace == {" ", "\t", "\n", "\r"}

\* The characters the regular expression \w matches.
WordChars ==
    {UpperCase[i] : i \in 1..26} \cup {LowerCase[i] : i \in 1..26}
        \cup {Digits[i] : i \in 1..10} \cup {"_"}

\* The characters of the class [.!?].
Terminators == {".", "!", "?"}

\* s.strip()
strip(s) ==
    IF \A i \in 1..Len(s) : s[i] \in Whitespace
    THEN <<>>
    ELSE LET a == CHOOSE i \in 1..Len(s) :
                      /\ s[i] \notin Whitespace
                      /\ \A j \in 1..(i - 1) : s[j] \in Whitespace
             b == CHOOSE i \in 1..Len(s) :
                      /\ s[i] \notin Whitespace
                      /\ \A j \in (i + 1)..Len(s) : s[j] \in Whitespace
         IN  SubSeq(s, a, b)

\* c.lower() of one character
LowerChar(c) ==
    IF \E k \in 1..26 : UpperCase[k] = c
    THEN LowerCase[CHOOSE k \in 1..26 : UpperCase[k] = c]
    ELSE c

\* A lower() that leaves the case as it is.
same_case(s) == s

\* s.lower()
lower(s) == SubSeq([i \in 1..Len(s) |-> LowerChar(s[i])], 1, Len(s))

\* sub in s
contains(sub, s) ==
    \E i \in 1..(Len(s) - Len(sub) + 1) : SubSeq(s, i, i + Len(sub) - 1) = sub

\* sep.join(parts)
RECURSIVE join(_, _)
join(sep, parts) ==
    IF parts = <<>> THEN <<>>
    ELSE IF Len(parts) = 1 THEN parts[1]
    ELSE parts[1] \o sep \o join(sep, Tail(parts))

\* A slice that keeps the whole list.
TakeAll(xs, n) == xs

\* xs[:n]
Take(xs, n) == SubSeq(xs, 1, IF Len(xs) < n THEN Len(xs) ELSE n)

\* re.split(r'[.!?]+', s): the pieces between the runs of terminators, the
\* empty pieces at the ends included.
RECURSIVE re_split(_)
re_split(s) ==
    IF \A i \in 1..Len(s) : s[i] \notin Terminators
    THEN <<s>>
    ELSE LET a == CHOOSE i \in 1..Len(s) :
                      /\ s[i] \in Terminators
                      /\ \A j \in 1..(i - 1) : s[j] \notin Terminators
             b == CHOOSE i \in a..Len(s) :
                      /\ \A j \in a..i : s[j] \in Terminators
                      /\ i = Len(s) \/ s[i + 1] \notin Terminators
         IN  <<SubSeq(s, 1, a - 1)>> \o re_split(SubSeq(s, b + 1, Len(s)))

\* re.findall(r'\b\w+\b', s): the maximal runs of word characters.
RECURSIVE findall_words(_)
findall_words(s) ==
    IF \A i \in 1..Len(s) : s[i] \notin WordChars
    THEN <<>>
    ELSE LET a == CHOOSE i \in 1..Len(s) :
                      /\ s[i] \in WordChars
                      /\ \A j \in 1..(i - 1) : s[j] \notin WordChars
             b == CHOOSE i \in a..Len(s) :
                      /\ \A j \in a..i : s[j] \in WordChars
                      /\ i = Len(s) \/ s[i + 1] \notin WordChars
         IN  <<SubSeq(s, a, b)>> \o findall_words(SubSeq(s, b + 1, Len(s)))

\* ---------------------------------------------------------- transcription

Speaker1 ==
    <<"S", "p", "e", "a", "k", "e", "r", " ", "1">>

UnknownSpeaker ==
    <<"U", "n", "k", "n", "o", "w", "n">>

ErrorSpeaker ==
    <<"E", "r", "r", "o", "r">>

InaudibleText ==
    <<"[", "I", "n", "a", "u", "d", "i", "b", "l", "e", "]">>

ServiceErrorPrefix ==
    <<"[", "T", "r", "a", "n", "s", "c", "r", "i", "p", "t", "i", "o", "n",
      " ", "s", "e", "r", "v", "i", "c", "e", " ", "e", "r", "r", "o", "r",
      ":", " ">>

\* duration = source.DURATION if hasattr(source, 'DURATION') else 30
FallbackDuration == 30

\* confidence is kept in tenths: 8 is Python's 0.8, 0 is 0.0.
RecognizedConfidence == 8

\* The audio files a path may name: missing, unreadable by sr.AudioFile (its
\* open raises with the given message), or audio with a DURATION, or audio
\* whose source has no DURATION attribute.
BadFormat ==
    <<"b", "a", "d", " ", "f", "o", "r", "m", "a", "t">>

Timeout ==
    <<"t", "i", "m", "e", "d", " ", "o", "u", "t">>

HelloText ==
    <<"h", "e", "l", "l", "o", " ", "a", "l", "l">>

AudioPaths == {"a.wav", "b.wav"}

AudioFiles ==
    {[kind |-> "missing"], [kind |-> "unreadable", detail |-> BadFormat]}
    \cup {[kind |-> "audio", has_duration |-> TRUE, DURATION |-> d] :
             d \in {0, 12}}
    \cup {[kind |-> "audio", has_duration |-> FALSE, DURATION |-> 0]}

\* What recognizer.recognize_google(audio) does: returns text, raises
\* sr.UnknownValueError, raises sr.RequestError(detail), or raises anything
\* else.
RecognitionOutcomes ==
    {[kind |-> "text", text |-> t] : t \in {<<>>, HelloText}}
    \cup {[kind |-> "unknown_value"]}
    \cup {[kind |-> "request_error", detail |-> d] : d \in {<<>>, Timeout}}
    \cup {[kind |-> "other_error", detail |-> Timeout]}

\* datetime.now().isoformat()
Clock == {"2024-01-01T10:00:00", "2024-01-01T10:00:01"}

Segment(start, end, speaker, text, confidence) ==
    [start |-> start, end |-> end, speaker |-> speaker, text |-> text,
     confidence |-> confidence]

\* transcribe_segmented with the UnknownValueError branch given the recognized
\* branch's speaker and confidence.
transcribe_segmented_same_branch(outcome, duration) ==
    CASE outcome.kind \in {"text", "unknown_value"} ->
           [raised |-> FALSE,
            segments |-> <<Segment(0, duration, Speaker1,
                                   IF outcome.kind = "text" THEN outcome.text
                                   ELSE InaudibleText,
                                   RecognizedConfidence)>>]
      [] outcome.kind = "request_error" ->
           [raised |-> FALSE,
            segments |-> <<Segment(0, duration, ErrorSpeaker,
                                   ServiceErrorPrefix \o outcome.detail
                                       \o <<"]">>, 0)>>]
      [] OTHER -> [raised |-> TRUE, error |-> outcome.detail]

\* _transcribe_segmented: the segment list, or the exception that leaves it.
transcribe_segmented(outcome, duration) ==
    CASE outcome.kind = "text" ->
           [raised |-> FALSE,
            segments |-> <<Segment(0, duration, Speaker1, outcome.text,
                                   RecognizedConfidence)>>]
      [] outcome.kind = "unknown_value" ->
           [raised |-> FALSE,
            segments |-> <<Segment(0, duration, UnknownSpeaker, InaudibleText,
                                   0)>>]
      [] outcome.kind = "request_error" ->
           [raised |-> FALSE,
            segments |-> <<Segment(0, duration, ErrorSpeaker,
                                   ServiceErrorPrefix \o outcome.detail
                                       \o <<"]">>, 0)>>]
      [] OTHER -> [raised |-> TRUE, error |-> outcome.detail]

\* The except branch of transcribe_with_diarization.
ErrorTranscript(e, audio_path) ==
    [error |-> e, file_path |-> audio_path, segments |-> <<>>]

\* transcribe_with_diarization(audio_path), given the file the path names,
\* the recognition outcome and the clock.
transcribe_with_diarization(audio_path, file, outcome, now) ==
    IF file.kind # "audio"
    THEN ErrorTranscript(IF file.kind = "unreadable" THEN file.detail
                         ELSE <<>>, audio_path)
    ELSE LET duration == IF file.has_duration THEN file.DURATION
                         ELSE FallbackDuration
             transcript == transcribe_segmented(outcome, duration)
         IN  IF transcript.raised
             THEN ErrorTranscript(transcript.error, audio_path)
             ELSE [file_path |-> audio_path, duration |-> duration,
                   timestamp |-> now, segments |-> transcript.segments]

\* transcribe_audio without its Path(audio_path).exists() test.
transcribe_audio_unchecked(audio_path, file, outcome, now) ==
    [kind |-> "transcript",
     transcript |-> transcribe_with_diarization(audio_path, file, outcome,
                                                now)]

\* TabletopNotetakerApp.transcribe_audio: None when the file does not exist
\* (or when anything raises), else the service's transcript.
transcribe_audio(audio_path, file, outcome, now) ==
    IF file.kind = "missing"
    THEN [kind |-> "None"]
    ELSE [kind |-> "transcript",
          transcript |-> transcribe_with_diarization(audio_path, file,
                                                     outcome, now)]

\* The recording pipeline stays idle in the transcription specification.
InitTranscribe ==
    /\ RecInit
    /\ SumIdle
    /\ DumpIdle
    /\ audio_files \in [AudioPaths -> AudioFiles]
    /\ tr_call = [op |-> "none"]
    /\ tr_result = [kind |-> "none yet"]

\* A caller transcribes the file at a path through the app.
TranscribeAudio(audio_path, outcome, now) ==
    /\ tr_call' = [op |-> "transcribe_audio", audio_path |-> audio_path,
                   outcome |-> outcome]
    /\ tr_result' = transcribe_audio(audio_path, audio_files[audio_path],
                                     outcome, now)
    /\ UNCHANGED <<audio_files, nonTrVars>>

\* A caller uses the transcription service directly.
TranscribeWithDiarization(audio_path, outcome, now) ==
    /\ tr_call' = [op |-> "transcribe_with_diarization",
                   audio_path |-> audio_path, outcome |-> outcome]
    /\ tr_result' = [kind |-> "transcript",
                     transcript |->
                         transcribe_with_diarization(
                             audio_path, audio_files[audio_path], outcome,
                             now)]
    /\ UNCHANGED <<audio_files, nonTrVars>>

NextTranscribe ==
    \/ \E p \in AudioPaths, o \in RecognitionOutcomes, now \in Clock :
           TranscribeAudio(p, o, now)
    \/ \E p \in AudioPaths, o \in RecognitionOutcomes, now \in Clock :
           TranscribeWithDiarization(p, o, now)

SpecTranscribe == InitTranscribe /\ [][NextTranscribe]_vars

\* ---------------------------------------------------- transcription: claims

\* The file the last call named.
CalledFile == audio_files[tr_call.audio_path]

Called == tr_call.op # "none"

\* The audio loaded and the recognizer gave one of its three outcomes.
Recognition ==
    /\ Called
    /\ CalledFile.kind = "audio"
    /\ tr_call.outcome.kind \in {"text", "unknown_value", "request_error"}

\* C7: whenever the audio loads, the transcript has exactly one segment, from
\* 0 to the duration, which is ("Speaker 1", T, 0.8) for recognized text T,
\* ("Unknown", "[Inaudible]", 0.0) for unintelligible audio and ("Error",
\* "[Transcription service error: d]", 0.0) for a service failure d.
C7_OneSegmentPerRecognitionOutcome ==
    Recognition =>
        /\ tr_result.kind = "transcript"
        /\ LET t == tr_result.transcript
               o == tr_call.outcome
           IN  /\ Len(t.segments) = 1
               /\ t.duration = IF CalledFile.has_duration
                                THEN CalledFile.DURATION ELSE 30
               /\ t.segments[1].start = 0
               /\ t.segments[1].end = t.duration
               /\ o.kind = "text" =>
                      /\ t.segments[1].speaker =
                             <<"S", "p", "e", "a", "k", "e", "r", " ", "1">>
                      /\ t.segments[1].text = o.text
                      /\ t.segments[1].confidence = 8
               /\ o.kind = "unknown_value" =>
                      /\ t.segments[1].speaker =
                             <<"U", "n", "k", "n", "o", "w", "n">>
                      /\ t.segments[1].text =
                             <<"[", "I", "n", "a", "u", "d", "i", "b", "l",
                               "e", "]">>
                      /\ t.segments[1].confidence = 0
               /\ o.kind = "request_error" =>
                      /\ t.segments[1].speaker = <<"E", "r", "r", "o", "r">>
                      /\ t.segments[1].text =
                             ServiceErrorPrefix \o o.detail \o <<"]">>
                      /\ t.segments[1].confidence = 0

\* An unintelligible recording of a file without a DURATION was transcribed.
C7_Witness ==
    /\ Recognition
    /\ tr_call.outcome.kind = "unknown_value"
    /\ ~CalledFile.has_duration
    /\ tr_result.transcript.segments[1].end = 30

\* C8: transcribe_audio returns None exactly when the file does not exist;
\* for an existing file, a failure other than the three recognition outcomes
\* gives a Transcript with an error field and no segments, and a returned
\* Transcript has an error field exactly when it has no segments.
C8_NoneOnlyForMissingFile ==
    (Called /\ tr_call.op = "transcribe_audio") =>
        /\ tr_result.kind = "None" <=> CalledFile.kind = "missing"
        /\ tr_result.kind \in {"None", "transcript"}
        /\ (CalledFile.kind # "missing" /\ ~Recognition) =>
               /\ "error" \in DOMAIN tr_result.transcript
               /\ tr_result.transcript.segments = <<>>
        /\ tr_result.kind = "transcript" =>
               ("error" \in DOMAIN tr_result.transcript
                    <=> tr_result.transcript.segments = <<>>)

\* An existing file that sr.AudioFile cannot read was transcribed through
\* the app.
C8_Witness ==
    /\ Called
    /\ tr_call.op = "transcribe_audio"
    /\ CalledFile.kind = "unreadable"
    /\ tr_result.kind = "transcript"
    /\ tr_result.transcript.error = CalledFile.detail

\* ---------------------------------------------------------- summarization

\* self.common_words
common_words ==
    {<<"t", "h", "e">>, <<"a">>, <<"a", "n">>, <<"a", "n", "d">>,
     <<"o", "r">>, <<"b", "u", "t">>, <<"i", "n">>, <<"o", "n">>,
     <<"a", "t">>, <<"t", "o">>, <<"f", "o", "r">>, <<"o", "f">>,
     <<"w", "i", "t", "h">>, <<"b", "y">>, <<"i", "s">>, <<"a", "r", "e">>,
     <<"w", "a", "s">>, <<"w", "e", "r", "e">>, <<"b", "e">>,
     <<"b", "e", "e", "n">>, <<"b", "e", "i", "n", "g">>,
     <<"h", "a", "v", "e">>, <<"h", "a", "s">>, <<"h", "a", "d">>,
     <<"d", "o">>, <<"d", "o", "e", "s">>, <<"d", "i", "d">>,
     <<"w", "i", "l", "l">>, <<"w", "o", "u", "l", "d">>,
     <<"c", "o", "u", "l", "d">>, <<"s", "h", "o", "u", "l", "d">>,
     <<"m", "a", "y">>, <<"m", "i", "g", "h", "t">>, <<"m", "u", "s", "t">>,
     <<"c", "a", "n">>, <<"s", "h", "a", "l", "l">>}

\* The substrings that make a segment an action item.
ActionWords ==
    <<<<"t", "o", "d", "o">>, <<"n", "e", "e", "d", " ", "t", "o">>,
     <<"s", "h", "o", "u", "l", "d">>, <<"w", "i", "l", "l">>,
     <<"a", "c", "t", "i", "o", "n">>>>

\* Fixed limits of _extract_summary_data and _generate_summary_text.
MaxKeyPoints == 10
MaxActionItems == 5
MaxKeywords == 15
MinSentenceLen == 20
MinWordLen == 3
FirstSentences == 5
MaxSummarySentences == 3

\* segment.get('text', ''), segment.get('speaker', 'Unknown')
GetText(segment) ==
    IF "text" \in DOMAIN segment THEN segment.text ELSE <<>>

GetSpeaker(segment) ==
    IF "speaker" \in DOMAIN segment THEN segment.speaker ELSE UnknownSpeaker

\* A filter that keeps every piece, however short.
AnyLength(pieces) ==
    SubSeq([i \in 1..Len(pieces) |-> strip(pieces[i])], 1, Len(pieces))

\* [s.strip() for s in re.split(...) if len(s.strip()) > 20]
Substantial(pieces) ==
    LET stripped == [i \in 1..Len(pieces) |-> strip(pieces[i])]
        IsLong(x) == Len(x) > MinSentenceLen
    IN  SelectSeq(stripped, IsLong)

\* The for loop of _extract_summary_data over segments[1..n]: all_text, the
\* speakers set, key_points and action_items after n segments.
RECURSIVE Accumulate(_, _)
Accumulate(segs, n) ==
    IF n = 0
    THEN [all_text |-> <<>>, speakers |-> {}, key_points |-> <<>>,
          action_items |-> <<>>]
    ELSE LET acc == Accumulate(segs, n - 1)
             text == strip(GetText(segs[n]))
             speaker == GetSpeaker(segs[n])
             is_action == \E k \in 1..Len(ActionWords) :
                              contains(ActionWords[k], lower(text))
         IN  IF text = <<>>
             THEN acc
             ELSE [all_text |-> Append(acc.all_text, text),
                   speakers |-> acc.speakers \cup {speaker},
                   key_points |-> acc.key_points \o Substantial(re_split(text)),
                   action_items |->
                       IF is_action
                       THEN Append(acc.action_items,
                                   speaker \o <<":", " ">> \o text)
                       ELSE acc.action_items]

\* The words _extract_keywords counts: longer than 3 and not common words.
CountedWords(words) ==
    LET Counts(w) == Len(w) > MinWordLen /\ w \notin common_words
    IN  SelectSeq(words, Counts)

\* word_freq as a list of [word, freq], in the dict's insertion order (the
\* order of first occurrence).
WordFreq(counted) ==
    LET first == {i \in 1..Len(counted) :
                     \A j \in 1..(i - 1) : counted[j] # counted[i]}
        Nth(r) == CHOOSE i \in first :
                      Cardinality({j \in first : j < i}) = r - 1
        Item(i) == [word |-> counted[i],
                    freq |-> Cardinality({j \in 1..Len(counted) :
                                             counted[j] = counted[i]})]
    IN  SubSeq([r \in 1..Cardinality(first) |-> Item(Nth(r))], 1,
               Cardinality(first))

\* A sort that leaves the items in insertion order.
insertion_order(items) == items

\* sorted(items, key=lambda x: x[1], reverse=True): by descending freq;
\* the sort is stable, so items of equal freq keep their order.
SortedByFreq(items) ==
    LET Before(i, j) ==
            \/ items[i].freq > items[j].freq
            \/ items[i].freq = items[j].freq /\ i < j
        Rank(i) == Cardinality({j \in 1..Len(items) : Before(j, i)}) + 1
    IN  SubSeq([r \in 1..Len(items) |->
                   items[CHOOSE i \in 1..Len(items) : Rank(i) = r]], 1,
               Len(items))

\* _extract_keywords(text): the words counted more than once, by descending
\* count.
extract_keywords(text) ==
    LET sorted_words == SortedByFreq(WordFreq(CountedWords(
                            findall_words(lower(text)))))
        Repeated(item) == item.freq > 1
        kept == SelectSeq(sorted_words, Repeated)
    IN  SubSeq([r \in 1..Len(kept) |-> kept[r].word], 1, Len(kept))

\* The sentences _generate_summary_text joins: of the first 5 substantial
\* sentences of the joined text, the first 3.
important_sentences(text_segments) ==
    LET full_text == join(<<" ">>, text_segments)
        sentences == Substantial(re_split(full_text))
    IN  Take(Take(sentences, FirstSentences), MaxSummarySentences)

\* _generate_summary_text(text_segments)
generate_summary_text(text_segments) ==
    join(<<" ">>, important_sentences(text_segments))

\* _extract_summary_data(segments). list(speakers) lists a Python set of str,
\* whose iteration order follows the strings' randomized hashes: `order` is
\* the order this run of the interpreter yields.
extract_summary_data(segs, order) ==
    LET acc == Accumulate(segs, Len(segs))
        full_text == join(<<" ">>, acc.all_text)
    IN  [speakers |-> order,
         total_segments |-> Len(segs),
         key_points |-> Take(acc.key_points, MaxKeyPoints),
         action_items |-> Take(acc.action_items, MaxActionItems),
         keywords |-> Take(extract_keywords(full_text), MaxKeywords),
         summary_text |-> generate_summary_text(acc.all_text)]

\* The orders in which a set can be listed.
ListingsOf(S) ==
    {f \in [1..Cardinality(S) -> S] :
        \A i, j \in 1..Cardinality(S) : i # j => f[i] # f[j]}

\* Sample segments: the three of the repository's test, a blank one, one with
\* an upper-case action word and surrounding blanks, and two long ones.
Alice ==
    <<"A", "l", "i", "c", "e">>

Bob ==
    <<"B", "o", "b">>

Carol ==
    <<"C", "a", "r", "o", "l">>

HelloEveryone ==
    <<"H", "e", "l", "l", "o", " ", "e", "v", "e", "r", "y", "o", "n", "e",
      ",", " ", "l", "e", "t", "'", "s", " ", "s", "t", "a", "r", "t", " ",
      "t", "h", "e", " ", "m", "e", "e", "t", "i", "n", "g", ".">>

ShouldDiscuss ==
    <<"I", " ", "t", "h", "i", "n", "k", " ", "w", "e", " ", "s", "h", "o",
      "u", "l", "d", " ", "d", "i", "s", "c", "u", "s", "s", " ", "t", "h",
      "e", " ", "n", "e", "w", " ", "p", "r", "o", "j", "e", "c", "t", " ",
      "t", "i", "m", "e", "l", "i", "n", "e", ".">>

NeedToFinish ==
    <<"G", "o", "o", "d", " ", "i", "d", "e", "a", ".", " ", "W", "e", " ",
      "n", "e", "e", "d", " ", "t", "o", " ", "f", "i", "n", "i", "s", "h",
      " ", "b", "y", " ", "n", "e", "x", "t", " ", "F", "r", "i", "d", "a",
      "y", ".">>

BlankText ==
    <<" ", " ", "\n">>

TodoText ==
    <<" ", "T", "O", "D", "O", ":", " ", "d", "r", "a", "w", " ", "t", "h",
      "e", " ", "m", "a", "p", " ">>

BudgetText ==
    <<"W", "e", " ", "s", "h", "o", "u", "l", "d", " ", "r", "e", "v", "i",
      "e", "w", " ", "t", "h", "e", " ", "b", "u", "d", "g", "e", "t", " ",
      "p", "l", "a", "n", " ", "t", "o", "d", "a", "y", ".", " ", "T", "h",
      "e", "n", " ", "w", "e", " ", "w", "i", "l", "l", " ", "c", "h", "e",
      "c", "k", " ", "t", "h", "e", " ", "v", "e", "n", "d", "o", "r", " ",
      "l", "i", "s", "t", " ", "a", "g", "a", "i", "n", ".">>

CavernText ==
    <<"G", "r", "e", "a", "t", " ", "i", "d", "e", "a", "!", " ", "T", "h",
      "e", " ", "n", "o", "r", "t", "h", "e", "r", "n", " ", "c", "a", "v",
      "e", "r", "n", " ", "h", "o", "l", "d", "s", " ", "s", "e", "v", "e",
      "n", " ", "d", "r", "a", "g", "o", "n", " ", "e", "g", "g", "s", ".",
      " ", "W", "e", " ", "w", "i", "l", "l", " ", "c", "o", "u", "n", "t",
      " ", "e", "i", "g", "h", "t", " ", "g", "o", "l", "d", "e", "n", " ",
      "o", "n", "e", "s", " ", "m", "a", "y", "b", "e", "?">>

Seg(speaker, text) == [speaker |-> speaker, text |-> text]

ShortSamples ==
    {Seg(Alice, HelloEveryone), Seg(Bob, ShouldDiscuss),
     Seg(Alice, NeedToFinish), Seg(Carol, BlankText), Seg(Bob, TodoText)}

LongSamples == {Seg(Alice, BudgetText), Seg(Carol, CavernText)}

LongLists == UNION {[1..n -> LongSamples] : n \in 1..MaxLongSegs}

\* Short lists of any sample, and long lists of the long samples, with or
\* without a blank segment at the end.
ShortLists == UNION {[1..n -> ShortSamples] : n \in 0..MaxShortSegs}

SegmentLists ==
    ShortLists
        \cup LongLists
        \cup {Append(l, Seg(Carol, BlankText)) : l \in LongLists}

\* The recording pipeline and the transcription stay idle in the
\* summarization specification.
InitSummary ==
    /\ RecInit
    /\ TrIdle
    /\ DumpIdle
    /\ segments \in SegmentLists
    /\ summary_data = NoSummary
    /\ set_order = <<>>
    /\ summary_out = NoOutput

\* The orders list(speakers) can give in this process: the one it gave
\* before for the same set, any order for a set not listed yet.
ListOrders(speakers) ==
    IF speakers \in DOMAIN set_order
    THEN {set_order[speakers]}
    ELSE ListingsOf(speakers)

\* A caller extracts the summary data of the segment list.
ExtractSummaryData ==
    /\ LET speakers == Accumulate(segments, Len(segments)).speakers
       IN  \E order \in ListOrders(speakers) :
               /\ summary_data' = extract_summary_data(segments, order)
               /\ set_order' = (speakers :> order) @@ set_order
    /\ UNCHANGED <<segments, summary_out, nonSumVars>>

NextSummary == ExtractSummaryData

SpecSummary == InitSummary /\ [][NextSummary]_vars

\* The program is started again: a new interpreter process with a new hash
\* seed. What earlier runs returned is still with the caller.
Restart ==
    /\ set_order # <<>>
    /\ set_order' = <<>>
    /\ UNCHANGED <<segments, summary_data, summary_out, nonSumVars>>

\* Repeated extraction of short segment lists over several runs of the
\* program.
InitRuns ==
    /\ RecInit
    /\ TrIdle
    /\ DumpIdle
    /\ segments \in ShortLists
    /\ summary_data = NoSummary
    /\ set_order = <<>>
    /\ summary_out = NoOutput

NextRuns ==
    \/ ExtractSummaryData
    \/ Restart

SpecRuns == InitRuns /\ [][NextRuns]_vars

DatePrefix ==
    <<"D", "a", "t", "e", ":", " ">>

\* transcript.get('segments', [])
GetSegments(transcript) ==
    IF "segments" \in DOMAIN transcript THEN transcript.segments ELSE <<>>

\* ------------------------------------------------- summarize: rendering

NoContent ==
    <<"N", "o", " ", "t", "r", "a", "n", "s", "c", "r", "i", "p", "t", " ",
      "c", "o", "n", "t", "e", "n", "t", " ", "t", "o", " ", "s", "u", "m",
      "m", "a", "r", "i", "z", "e", ".">>

MeetingSummaryTitle ==
    <<"M", "E", "E", "T", "I", "N", "G", " ", "S", "U", "M", "M", "A", "R",
      "Y">>

DurationPrefix ==
    <<"D", "u", "r", "a", "t", "i", "o", "n", ":", " ">>

SecondsSuffix ==
    <<" ", "s", "e", "c", "o", "n", "d", "s">>

UnknownDuration ==
    <<"U", "n", "k", "n", "o", "w", "n">>

ParticipantsHeader ==
    <<"P", "A", "R", "T", "I", "C", "I", "P", "A", "N", "T", "S", ":">>

SummaryHeader ==
    <<"S", "U", "M", "M", "A", "R", "Y", ":">>

KeyPointsHeader ==
    <<"K", "E", "Y", " ", "P", "O", "I", "N", "T", "S", ":">>

ActionItemsHeader ==
    <<"A", "C", "T", "I", "O", "N", " ", "I", "T", "E", "M", "S", ":">>

KeywordsHeader ==
    <<"T", "O", "P", "I", "C", "S", "/", "K", "E", "Y", "W", "O", "R", "D",
      "S", ":">>

MdTitle ==
    <<"#", " ", "M", "e", "e", "t", "i", "n", "g", " ", "S", "u", "m", "m",
      "a", "r", "y">>

MdDatePrefix ==
    <<"*", "*", "D", "a", "t", "e", ":", "*", "*", " ">>

MdDurationPrefix ==
    <<"*", "*", "D", "u", "r", "a", "t", "i", "o", "n", ":", "*", "*", " ">>

MdParticipantsHeader ==
    <<"#", "#", " ", "P", "a", "r", "t", "i", "c", "i", "p", "a", "n", "t",
      "s">>

MdSummaryHeader ==
    <<"#", "#", " ", "S", "u", "m", "m", "a", "r", "y">>

MdKeyPointsHeader ==
    <<"#", "#", " ", "K", "e", "y", " ", "P", "o", "i", "n", "t", "s">>

MdActionItemsHeader ==
    <<"#", "#", " ", "A", "c", "t", "i", "o", "n", " ", "I", "t", "e", "m",
      "s">>

MdKeywordsHeader ==
    <<"#", "#", " ", "T", "o", "p", "i", "c", "s", "/", "K", "e", "y", "w",
      "o", "r", "d", "s">>

WavPath ==
    <<"a", ".", "w", "a", "v">>

\* "=" * 50
RuleWidth == 50

Rule == [i \in 1..RuleWidth |-> "="]

\* str(n) of a natural number
RECURSIVE str_int(_)
str_int(n) ==
    IF n < 10 THEN <<Digits[n + 1]>>
    ELSE str_int(n \div 10) \o <<Digits[(n % 10) + 1]>>

\* str(transcript.get('duration', 'Unknown'))
DurationText(transcript) ==
    IF "duration" \in DOMAIN transcript
    THEN str_int(transcript.duration)
    ELSE UnknownDuration

\* The lines of a list section: prefix(i) before the i-th item.
Numbered(items) ==
    [i \in 1..Len(items) |-> <<" ", " ">> \o str_int(i) \o <<".", " ">>
                                \o items[i]]

\* A list section without its lines.
no_bullets(prefix, items) == <<>>

Bulleted(prefix, items) == [i \in 1..Len(items) |-> prefix \o items[i]]

\* _format_text_summary(data, transcript); now is the formatted date.
format_text_summary(data, transcript, now) ==
    LET lines ==
            <<MeetingSummaryTitle, Rule, DatePrefix \o now,
              DurationPrefix \o DurationText(transcript) \o SecondsSuffix,
              <<>>, ParticipantsHeader>>
            \o Bulleted(<<" ", " ", "-", " ">>, data.speakers)
            \o << <<>> >>
            \o (IF data.summary_text # <<>>
                THEN <<SummaryHeader, data.summary_text, <<>> >>
                ELSE <<>>)
            \o (IF data.key_points # <<>>
                THEN <<KeyPointsHeader>> \o Numbered(data.key_points)
                         \o << <<>> >>
                ELSE <<>>)
            \o (IF data.action_items # <<>>
                THEN <<ActionItemsHeader>> \o Numbered(data.action_items)
                         \o << <<>> >>
                ELSE <<>>)
            \o (IF data.keywords # <<>>
                THEN <<KeywordsHeader, join(<<",", " ">>, data.keywords)>>
                ELSE <<>>)
    IN  join(<<"\n">>, lines)

\* _format_markdown_summary(data, transcript)
format_markdown_summary(data, transcript, now) ==
    LET lines ==
            <<MdTitle, <<>>, MdDatePrefix \o now,
              MdDurationPrefix \o DurationText(transcript)
                  \o SecondsSuffix,
              <<>>, MdParticipantsHeader>>
            \o Bulleted(<<"-", " ">>, data.speakers)
            \o << <<>> >>
            \o (IF data.summary_text # <<>>
                THEN <<MdSummaryHeader, data.summary_text, <<>> >>
                ELSE <<>>)
            \o (IF data.key_points # <<>>
                THEN <<MdKeyPointsHeader>>
                         \o Bulleted(<<"-", " ">>, data.key_points)
                         \o << <<>> >>
                ELSE <<>>)
            \o (IF data.action_items # <<>>
                THEN <<MdActionItemsHeader>>
                         \o Bulleted(<<"-", " ">>, data.action_items)
                         \o << <<>> >>
                ELSE <<>>)
            \o (IF data.keywords # <<>>
                THEN <<MdKeywordsHeader, join(<<",", " ">>, data.keywords)>>
                ELSE <<>>)
    IN  join(<<"\n">>, lines)

\* json.dumps of a str (ensure_ascii=False): quotes, backslashes and
\* control characters escaped.
json_escape_char(c) ==
    CASE c = "\"" -> <<"\\", "\"">>
      [] c = "\\" -> <<"\\", "\\">>
      [] c = "\n" -> <<"\\", "n">>
      [] c = "\r" -> <<"\\", "r">>
      [] c = "\t" -> <<"\\", "t">>
      [] OTHER -> <<c>>

RECURSIVE json_escape(_)
json_escape(x) ==
    IF x = <<>> THEN <<>>
    ELSE IF Len(x) = 1 THEN json_escape_char(x[1])
    ELSE LET half == Len(x) \div 2
         IN  json_escape(SubSeq(x, 1, half))
                 \o json_escape(SubSeq(x, half + 1, Len(x)))

json_str(x) == <<"\"">> \o json_escape(x) \o <<"\"">>

\* json.dumps of a list of str at the first level of the object (indent=2).
json_list(items) ==
    IF items = <<>>
    THEN <<"[", "]">>
    ELSE <<"[", "\n">>
             \o join(<<",", "\n">>,
                     [i \in 1..Len(items) |->
                         <<" ", " ", " ", " ">> \o json_str(items[i])])
             \o <<"\n", " ", " ", "]">>

\* A "key": of the object, indented by n blanks.
json_key(n, key) == [i \in 1..n |-> " "] \o json_str(key) \o <<":", " ">>

\* _format_json_summary(data, transcript); now is datetime.now().isoformat().
format_json_summary(data, transcript, now) ==
    <<"{", "\n">>
        \o json_key(2, <<"m", "e", "t", "a", "d", "a", "t", "a">>)
        \o <<"{", "\n">>
        \o json_key(4, <<"d", "a", "t", "e">>) \o json_str(now)
        \o <<",", "\n">>
        \o json_key(4, <<"d", "u", "r", "a", "t", "i", "o", "n">>)
        \o (IF "duration" \in DOMAIN transcript
            THEN str_int(transcript.duration) ELSE <<"0">>)
        \o <<",", "\n">>
        \o json_key(4, <<"f", "i", "l", "e", "_", "p", "a", "t", "h">>)
        \o json_str(IF "file_path" \in DOMAIN transcript
                    THEN transcript.file_path ELSE <<>>)
        \o <<"\n", " ", " ", "}", ",", "\n">>
        \o json_key(2, <<"p", "a", "r", "t", "i", "c", "i", "p", "a", "n",
                         "t", "s">>)
        \o json_list(data.speakers) \o <<",", "\n">>
        \o json_key(2, <<"s", "u", "m", "m", "a", "r", "y">>)
        \o json_str(data.summary_text) \o <<",", "\n">>
        \o json_key(2, <<"k", "e", "y", "_", "p", "o", "i", "n", "t", "s">>)
        \o json_list(data.key_points) \o <<",", "\n">>
        \o json_key(2, <<"a", "c", "t", "i", "o", "n", "_", "i", "t", "e",
                         "m", "s">>)
        \o json_list(data.action_items) \o <<",", "\n">>
        \o json_key(2, <<"k", "e", "y", "w", "o", "r", "d", "s">>)
        \o json_list(data.keywords)
        \o <<"\n", "}">>

\* A summarize that formats whatever the segment list holds.
summarize_unchecked(transcript, format_type, order, moment) ==
    LET extracted == extract_summary_data(GetSegments(transcript), order)
    IN  IF format_type = "md"
        THEN format_markdown_summary(extracted, transcript, moment.stamp)
        ELSE IF format_type = "json"
        THEN format_json_summary(extracted, transcript, moment.iso)
        ELSE format_text_summary(extracted, transcript, moment.stamp)

\* summarize(transcript, format_type), given the order list(speakers) takes
\* and the date in the two forms the formatters print.
summarize(transcript, format_type, order, moment) ==
    IF GetSegments(transcript) = <<>>
    THEN NoContent
    ELSE LET extracted ==
                 extract_summary_data(GetSegments(transcript), order)
         IN  IF format_type = "md"
             THEN format_markdown_summary(extracted, transcript, moment.stamp)
             ELSE IF format_type = "json"
             THEN format_json_summary(extracted, transcript, moment.iso)
             ELSE format_text_summary(extracted, transcript, moment.stamp)

Formats == {"txt", "md", "json"}

\* datetime.now() when a summary is rendered.
Moments ==
    {[stamp |->
         <<"2", "0", "2", "4", "-", "0", "1", "-", "0", "1", " ", "1", "0",
           ":", "0", "0", ":", "0", "0">>,
      iso |->
         <<"2", "0", "2", "4", "-", "0", "1", "-", "0", "1", "T", "1", "0",
           ":", "0", "0", ":", "0", "0", ".", "2", "5", "0", "0", "0", "0">>]}

\* The transcripts that carry a segment list: a parsed one (segments and
\* duration), a transcribed one (with file_path), and for the empty list
\* also the error transcript of a failed transcription and a dict without
\* segments.
TranscriptsOf(segs) ==
    {[segments |-> segs, duration |-> 10 * Len(segs)],
     [segments |-> segs, duration |-> FallbackDuration, file_path |-> WavPath]}
        \cup (IF segs = <<>>
              THEN {ErrorTranscript(BadFormat, WavPath),
                    [file_path |-> WavPath]}
              ELSE {})

\* The Alice/Bob/Alice sample of the repository's tests.
MeetingSample ==
    <<Seg(Alice, HelloEveryone), Seg(Bob, ShouldDiscuss),
      Seg(Alice, NeedToFinish)>>

\* Three long segments: every section has several entries.
LongSample ==
    <<Seg(Alice, BudgetText), Seg(Carol, CavernText), Seg(Alice, BudgetText)>>

RenderLists ==
    UNION {[1..n -> ShortSamples] : n \in 0..MaxRenderSegs}
        \cup {MeetingSample, LongSample}

InitRender ==
    /\ RecInit
    /\ TrIdle
    /\ DumpIdle
    /\ segments \in RenderLists
    /\ summary_data = NoSummary
    /\ set_order = <<>>
    /\ summary_out = NoOutput

\* A caller summarizes a transcript of the segment list. summary_data is
\* the local variable of summarize, left as it was when the segment list is
\* empty.
Summarize(format_type, now) ==
    \E transcript \in TranscriptsOf(segments) :
        LET speakers == Accumulate(segments, Len(segments)).speakers
        IN  \E order \in ListOrders(speakers) :
                /\ summary_out' =
                       [called |-> TRUE, transcript |-> transcript,
                        format |-> format_type,
                        text |-> summarize(transcript, format_type, order,
                                           now)]
                /\ IF segments = <<>>
                   THEN UNCHANGED <<summary_data, set_order>>
                   ELSE /\ summary_data' =
                               extract_summary_data(segments, order)
                        /\ set_order' = (speakers :> order) @@ set_order
                /\ UNCHANGED <<segments, nonSumVars>>

NextRender ==
    \E format_type \in Formats, now \in Moments :
        Summarize(format_type, now)

SpecRender == InitRender /\ [][NextRender]_vars

\* ------------------------------------------- transcript dump and parser

\* s.find(sub): the lowest 0-based index where sub starts, -1 if none.
find(sub, s) ==
    IF contains(sub, s)
    THEN CHOOSE i \in 0..(Len(s) - Len(sub)) :
             /\ SubSeq(s, i + 1, i + Len(sub)) = sub
             /\ \A j \in 0..(i - 1) : SubSeq(s, j + 1, j + Len(sub)) # sub
    ELSE -1

\* s.split('\n')
RECURSIVE split_lines(_)
split_lines(s) ==
    IF \A i \in 1..Len(s) : s[i] # "\n"
    THEN <<s>>
    ELSE LET a == CHOOSE i \in 1..Len(s) :
                      /\ s[i] = "\n"
                      /\ \A j \in 1..(i - 1) : s[j] # "\n"
         IN  <<SubSeq(s, 1, a - 1)>> \o split_lines(SubSeq(s, a + 1, Len(s)))

MeetingTranscript ==
    <<"M", "e", "e", "t", "i", "n", "g", " ", "T", "r", "a", "n", "s", "c",
      "r", "i", "p", "t", "\n">>

\* The for loop of _save_as_text over segs[1..n]: the lines written.
RECURSIVE SegmentLines(_, _)
SegmentLines(segs, n) ==
    IF n = 0
    THEN <<>>
    ELSE LET speaker == GetSpeaker(segs[n])
             text == strip(GetText(segs[n]))
         IN  SegmentLines(segs, n - 1)
                 \o (IF text # <<>>
                     THEN <<"[">> \o speaker \o <<"]", ":", " ">> \o text
                              \o <<"\n">>
                     ELSE <<>>)

\* _save_as_text(transcript, output_path): the content of the file written;
\* now is datetime.now().strftime('%Y-%m-%d %H:%M:%S').
save_as_text(transcript, now) ==
    MeetingTranscript \o DatePrefix \o now \o <<"\n", "\n">>
        \o SegmentLines(GetSegments(transcript),
                        Len(GetSegments(transcript)))

MdMeetingTranscript ==
    <<"#", " ", "M", "e", "e", "t", "i", "n", "g", " ", "T", "r", "a", "n",
      "s", "c", "r", "i", "p", "t", "\n", "\n">>

\* current_speaker = None before the loop of _save_as_markdown; afterwards
\* it is <<speaker>>, which differs from NoSpeaker for every speaker.
NoSpeaker == <<>>

\* A loop that writes a heading before every segment with text.
RECURSIVE MarkdownLinesHeadingEach(_, _)
MarkdownLinesHeadingEach(segs, n) ==
    IF n = 0
    THEN [out |-> <<>>, current_speaker |-> NoSpeaker]
    ELSE LET before == MarkdownLinesHeadingEach(segs, n - 1)
             speaker == GetSpeaker(segs[n])
             text == strip(GetText(segs[n]))
         IN  IF text # <<>>
             THEN [out |-> before.out
                               \o <<"\n", "#", "#", " ">> \o speaker
                               \o <<"\n", "\n">> \o text \o <<"\n">>,
                   current_speaker |-> <<speaker>>]
             ELSE before

\* The for loop of _save_as_markdown over segs[1..n]: what was written and
\* the value of current_speaker after it.
RECURSIVE MarkdownLines(_, _)
MarkdownLines(segs, n) ==
    IF n = 0
    THEN [out |-> <<>>, current_speaker |-> NoSpeaker]
    ELSE LET before == MarkdownLines(segs, n - 1)
             speaker == GetSpeaker(segs[n])
             text == strip(GetText(segs[n]))
         IN  IF text # <<>>
             THEN [out |-> before.out
                               \o (IF <<speaker>> # before.current_speaker
                                   THEN <<"\n", "#", "#", " ">> \o speaker
                                            \o <<"\n", "\n">>
                                   ELSE <<>>)
                               \o text \o <<"\n">>,
                   current_speaker |-> <<speaker>>]
             ELSE before

\* _save_as_markdown(transcript, output_path): the content of the file
\* written; now is datetime.now().strftime('%Y-%m-%d %H:%M:%S').
save_as_markdown(transcript, now) ==
    MdMeetingTranscript \o MdDatePrefix \o now \o <<"\n", "\n">>
        \o MarkdownLines(GetSegments(transcript),
                         Len(GetSegments(transcript))).out

\* The for loop of _parse_transcript_file over lines[1..n]: the segments
\* appended. line[1:speaker_end] starts at the second character.
RECURSIVE ParseLines(_, _)
ParseLines(lines, n) ==
    IF n = 0
    THEN <<>>
    ELSE LET line == strip(lines[n])
             speaker_end == find(<<"]", ":">>, line)
         IN  ParseLines(lines, n - 1)
                 \o (IF /\ line # <<>>
                        /\ contains(<<"[">>, line)
                        /\ contains(<<"]", ":">>, line)
                     THEN <<[speaker |-> strip(SubSeq(line, 2, speaker_end)),
                             text |-> strip(SubSeq(line, speaker_end + 3,
                                                   Len(line))),
                             start |-> 0,
                             end |-> 0]>>
                     ELSE <<>>)

\* _parse_transcript_file(content)
parse_transcript_file(content) ==
    LET lines == split_lines(content)
        segs == ParseLines(lines, Len(lines))
    IN  [segments |-> segs, duration |-> Len(segs) * 10]

\* datetime.now() at the two moments a transcript is saved.
DumpClock ==
    {
     <<"2", "0", "2", "4", "-", "0", "1", "-", "0", "1", " ", "1", "0", ":",
       "0", "0", ":", "0", "0">>,
     <<"2", "0", "2", "4", "-", "0", "1", "-", "0", "1", " ", "1", "0", ":",
       "0", "0", ":", "0", "1">>}

\* Speaker labels and texts of the transcripts saved.
PaddedLabel ==
    <<" ", "G", "M">>

BracketLabel ==
    <<"A", "]", ":", "B">>

HiText ==
    <<"h", "i", ".">>

BracketText ==
    <<" ", "g", "o", " ", "[", "x", "]", ":", " ", "y", " ">>

TwoLineText ==
    <<"a", "\n", "b">>

DumpSamples ==
    {Seg(Alice, HiText), Seg(Bob, BracketText), Seg(Carol, BlankText),
     Seg(PaddedLabel, HiText), Seg(BracketLabel, HiText),
     Seg(Alice, TwoLineText), [text |-> HiText]}

DumpTranscripts ==
    {[segments |-> l] :
        l \in UNION {[1..n -> DumpSamples] : n \in 0..MaxDumpSegs}}

\* Lines of a transcript file somebody wrote or edited.
LineSamples ==
    {
     <<"[", "A", "l", "i", "c", "e", "]", ":", " ", "h", "i", ".">>,
     <<"M", "e", "e", "t", "i", "n", "g", " ", "T", "r", "a", "n", "s", "c",
       "r", "i", "p", "t">>,
     <<"N", "o", "t", "e", " ", "[", "x", "]", ":", " ", "y">>,
     <<"x", "]", ":", " ", "[", "y">>,
     <<" ", " ", "[", " ", "B", "o", "b", " ", "]", ":", " ", " ", "g", "o",
       " ", " ">>,
     <<>>,
     <<"[", "B", "o", "b", "]", ":">>}

EditedFiles ==
    {[origin |-> "edited", content |-> join(<<"\n">>, l)] :
        l \in UNION {[1..n -> LineSamples] : n \in 1..MaxLines}}

\* Either a transcript is about to be saved, or a transcript file written
\* by hand is on disk.
InitDump ==
    /\ RecInit
    /\ TrIdle
    /\ SumIdle
    /\ \/ /\ dump_transcript \in DumpTranscripts
          /\ transcript_file = NoFile
       \/ /\ dump_transcript = [segments |-> <<>>]
          /\ transcript_file \in EditedFiles
    /\ parsed = NoParse

\* save_transcript(transcript, output_path, "txt")
SaveTranscript(now) ==
    /\ transcript_file' = [origin |-> "dump",
                           content |-> save_as_text(dump_transcript, now)]
    /\ UNCHANGED <<dump_transcript, parsed, nonDumpVars>>

\* save_transcript(transcript, output_path, "md")
SaveTranscriptMarkdown(now) ==
    /\ transcript_file' = [origin |-> "markdown",
                           content |->
                               save_as_markdown(dump_transcript, now)]
    /\ UNCHANGED <<dump_transcript, parsed, nonDumpVars>>

\* The summarize command reads the file and parses it.
ParseTranscriptFile ==
    /\ transcript_file # NoFile
    /\ parsed' = [called |-> TRUE, file |-> transcript_file,
                  transcript |->
                      parse_transcript_file(transcript_file.content)]
    /\ UNCHANGED <<dump_transcript, transcript_file, nonDumpVars>>

NextDump ==
    \/ \E now \in DumpClock : SaveTranscript(now)
    \/ \E now \in DumpClock : SaveTranscriptMarkdown(now)
    \/ ParseTranscriptFile

SpecDump == InitDump /\ [][NextDump]_vars

\* --------------------------------------------------- summarization: claims

Extracted == summary_data # NoSummary

\* The distinct speakers of segs[1..n] whose stripped text is not empty, in
\* the order of their first appearance.
RECURSIVE FirstAppearance(_, _)
FirstAppearance(segs, n) ==
    IF n = 0
    THEN <<>>
    ELSE LET sofar == FirstAppearance(segs, n - 1)
             speaker == GetSpeaker(segs[n])
         IN  IF \/ strip(GetText(segs[n])) = <<>>
                \/ \E i \in 1..Len(sofar) : sofar[i] = speaker
             THEN sofar
             ELSE Append(sofar, speaker)

\* C9: the speakers of the extracted summary data are the distinct speaker
\* labels of the segments whose trimmed text is non-empty, without
\* duplicates and in order of first appearance in the segment list.
C9_SpeakersInFirstAppearanceOrder ==
    Extracted =>
        summary_data.speakers = FirstAppearance(segments, Len(segments))

\* Every substantial sentence of the joined text of the segments.
AllSentences ==
    Substantial(re_split(join(<<" ">>,
        Accumulate(segments, Len(segments)).all_text)))

\* C10: the extracted summary data has at most 10 key points, at most 5
\* action items and at most 15 keywords, its summary text is built from at
\* most 3 sentences, and total_segments is the number of input segments,
\* the ones with empty text included.
C10_ExtractedDataWithinCaps ==
    Extracted =>
        /\ Len(summary_data.key_points) <= 10
        /\ Len(summary_data.action_items) <= 5
        /\ Len(summary_data.keywords) <= 15
        /\ LET sentences == AllSentences
           IN  \E k \in 0..3 :
                   /\ k <= Len(sentences)
                   /\ summary_data.summary_text =
                          join(<<" ">>, SubSeq(sentences, 1, k))
        /\ summary_data.total_segments = Len(segments)

\* Six long segments and a blank one were extracted: more than 10
\* sentences, more than 5 action segments, more than 3 sentences to
\* summarize and 15 keywords kept.
C10_Witness ==
    /\ Extracted
    /\ Len(segments) = 7
    /\ strip(GetText(segments[7])) = <<>>
    /\ summary_data.total_segments = 7
    /\ Len(Accumulate(segments, 7).key_points) > 10
    /\ Len(summary_data.key_points) = 10
    /\ Len(Accumulate(segments, 7).action_items) > 5
    /\ Len(summary_data.action_items) = 5
    /\ Len(summary_data.keywords) = 15
    /\ Len(AllSentences) > 3

\* The trimmed texts of the segments that have one, joined by blanks, and
\* its lower-case word tokens.
Corpus == join(<<" ">>, Accumulate(segments, Len(segments)).all_text)

CorpusTokens == findall_words(lower(Corpus))

\* C11: keywords is exactly the first 15 entries of the sequence of the
\* distinct lower-case word tokens of the joined non-empty texts that are
\* longer than 3, are no stop words and occur more than once, by descending
\* frequency, tokens of equal frequency in order of first occurrence; every
\* keyword occurs more than once.
C11_KeywordsAreRepeatedTokensByFrequency ==
    Extracted =>
        LET tokens == CorpusTokens
            kw == summary_data.keywords
            Count(w) == Cardinality({i \in 1..Len(tokens) : tokens[i] = w})
            FirstPos(w) == CHOOSE i \in 1..Len(tokens) :
                               /\ tokens[i] = w
                               /\ \A j \in 1..(i - 1) : tokens[j] # w
            Qualifying == {w \in {tokens[i] : i \in 1..Len(tokens)} :
                              /\ Len(w) > 3
                              /\ w \notin common_words
                              /\ Count(w) > 1}
            Precedes(v, w) ==
                \/ Count(v) > Count(w)
                \/ Count(v) = Count(w) /\ FirstPos(v) < FirstPos(w)
            listed == {kw[i] : i \in 1..Len(kw)}
        IN  /\ listed \subseteq Qualifying
            /\ \A i \in 1..Len(kw) : Count(kw[i]) > 1
            /\ Len(kw) = IF Cardinality(Qualifying) < 15
                         THEN Cardinality(Qualifying) ELSE 15
            /\ \A i, j \in 1..Len(kw) : i < j => Precedes(kw[i], kw[j])
            /\ \A w \in Qualifying \ listed :
                   \A i \in 1..Len(kw) : Precedes(kw[i], w)

\* Fifteen keywords were kept of more, and a token that first occurs later
\* in the text is listed before an earlier one because it occurs more often.
C11_Witness ==
    /\ Extracted
    /\ Len(summary_data.keywords) = 15
    /\ LET tokens == CorpusTokens
           kw == summary_data.keywords
           Pos(w) == CHOOSE i \in 1..Len(tokens) :
                         /\ tokens[i] = w
                         /\ \A j \in 1..(i - 1) : tokens[j] # w
       IN  /\ Pos(kw[1]) > Pos(kw[15])
           /\ \E i \in 1..Len(tokens) :
                  /\ Len(tokens[i]) > 3
                  /\ tokens[i] \notin common_words
                  /\ \E j \in 1..Len(tokens) : j # i /\ tokens[j] = tokens[i]
                  /\ \A k \in 1..15 : kw[k] # tokens[i]

\* The fragments of the corpus between runs of '.', '!' and '?', each by
\* the position of its first character.
FragmentStarts(c) ==
    {a \in 1..Len(c) :
        /\ c[a] \notin {".", "!", "?"}
        /\ a = 1 \/ c[a - 1] \in {".", "!", "?"}}

Fragment(c, a) ==
    LET b == CHOOSE i \in a..Len(c) :
                 /\ \A j \in a..i : c[j] \notin {".", "!", "?"}
                 /\ i = Len(c) \/ c[i + 1] \in {".", "!", "?"}
    IN  strip(SubSeq(c, a, b))

\* C22: summary_text is the single-space join, in original order, of the
\* first 3 (or fewer, if fewer exist) of the first 5 fragments longer than
\* 20 got by splitting the space-joined trimmed texts of the segments with
\* text on runs of '.', '!' or '?' and trimming each fragment; it is empty
\* when there is no such fragment.
C22_SummaryTextIsFirstThreeLongFragments ==
    Extracted =>
        LET c == Corpus
            long == {a \in FragmentStarts(c) : Len(Fragment(c, a)) > 20}
            Nth(k) == CHOOSE a \in long :
                          Cardinality({x \in long : x < a}) = k - 1
            five == IF Cardinality(long) < 5 THEN Cardinality(long) ELSE 5
            three == IF five < 3 THEN five ELSE 3
            text == summary_data.summary_text
        IN  /\ three = 0 => text = <<>>
            /\ three = 1 => text = Fragment(c, Nth(1))
            /\ three = 2 => text = Fragment(c, Nth(1)) \o <<" ">>
                                       \o Fragment(c, Nth(2))
            /\ three = 3 => text = Fragment(c, Nth(1)) \o <<" ">>
                                       \o Fragment(c, Nth(2)) \o <<" ">>
                                       \o Fragment(c, Nth(3))

\* Three long segments with six long fragments and a short one ("Great
\* idea") were extracted: the summary text is the first three long ones.
C22_Witness ==
    /\ Extracted
    /\ segments = <<Seg(Alice, BudgetText), Seg(Carol, CavernText),
                    Seg(Alice, BudgetText)>>
    /\ LET c == Corpus
       IN  /\ Cardinality({a \in FragmentStarts(c) :
                              Len(Fragment(c, a)) > 20}) = 6
           /\ Cardinality(FragmentStarts(c)) = 7
    /\ summary_data.summary_text
           = <<
              "W", "e", " ", "s", "h", "o", "u", "l", "d", " ", "r", "e",
              "v", "i", "e", "w", " ", "t", "h", "e", " ", "b", "u", "d",
              "g", "e", "t", " ", "p", "l", "a", "n", " ", "t", "o", "d",
              "a", "y", " ", "T", "h", "e", "n", " ", "w", "e", " ", "w",
              "i", "l", "l", " ", "c", "h", "e", "c", "k", " ", "t", "h",
              "e", " ", "v", "e", "n", "d", "o", "r", " ", "l", "i", "s",
              "t", " ", "a", "g", "a", "i", "n", " ", "T", "h", "e", " ",
              "n", "o", "r", "t", "h", "e", "r", "n", " ", "c", "a", "v",
              "e", "r", "n", " ", "h", "o", "l", "d", "s", " ", "s", "e",
              "v", "e", "n", " ", "d", "r", "a", "g", "o", "n", " ", "e",
              "g", "g", "s">>

\* sub occurs in s when the case of s is ignored (sub is in lower case).
OccursFolded(sub, s) ==
    \E i \in 1..(Len(s) - Len(sub) + 1) :
        \A k \in 1..Len(sub) : LowerChar(s[i + k - 1]) = sub[k]

\* The segments that make an action item: the trimmed text is not empty and
\* holds todo, need to, should, will or action in any case.
ActionSegments ==
    {i \in 1..Len(segments) :
        /\ strip(GetText(segments[i])) # <<>>
        /\ \/ OccursFolded(<<"t", "o", "d", "o">>,
                           strip(GetText(segments[i])))
           \/ OccursFolded(<<"n", "e", "e", "d", " ", "t", "o">>,
                           strip(GetText(segments[i])))
           \/ OccursFolded(<<"s", "h", "o", "u", "l", "d">>,
                           strip(GetText(segments[i])))
           \/ OccursFolded(<<"w", "i", "l", "l">>,
                           strip(GetText(segments[i])))
           \/ OccursFolded(<<"a", "c", "t", "i", "o", "n">>,
                           strip(GetText(segments[i])))}

\* C12: action_items is exactly the first 5, in segment order, of the
\* strings "<speaker>: <trimmed text>" of the segments whose non-empty
\* trimmed text, in lower case, contains todo, need to, should, will or
\* action; no other segment contributes.
C12_ActionItemsAreFirstFiveMatches ==
    Extracted =>
        LET act == ActionSegments
            items == summary_data.action_items
            Nth(k) == CHOOSE i \in act :
                          Cardinality({j \in act : j < i}) = k - 1
        IN  /\ Len(items) = IF Cardinality(act) < 5
                            THEN Cardinality(act) ELSE 5
            /\ \A k \in 1..Len(items) :
                   items[k] = GetSpeaker(segments[Nth(k)]) \o <<":", " ">>
                                  \o strip(GetText(segments[Nth(k)]))

\* The three-segment sample was extracted: Bob's line and Alice's second
\* line are the action items, Alice's first line is not.
C12_Witness ==
    /\ Extracted
    /\ segments = <<Seg(Alice, HelloEveryone), Seg(Bob, ShouldDiscuss),
                    Seg(Alice, NeedToFinish)>>
    /\ summary_data.action_items =
           <<Bob \o <<":", " ">> \o ShouldDiscuss,
             Alice \o <<":", " ">> \o NeedToFinish>>

\* C17: extraction is deterministic and free of side effects: evaluating it
\* again on the same segment list gives the same summary data in every
\* field, element order included, and leaves the segment list as it was.
C17_ExtractionIsDeterministic ==
    [][(Extracted /\ summary_data' # NoSummary) =>
           /\ summary_data' = summary_data
           /\ segments' = segments]_vars

\* Within one run of the program a second extraction gives the same data,
\* and every extraction leaves the segment list and the service as they
\* were; the fields other than speakers are the same in every run.
SameRunExtractionIsDeterministic ==
    [][/\ segments' = segments
       /\ (Extracted /\ summary_data' # NoSummary) =>
              /\ set_order # <<>> => summary_data' = summary_data
              /\ [summary_data' EXCEPT !.speakers = <<>>]
                     = [summary_data EXCEPT !.speakers = <<>>]]_vars

\* ------------------------------------------------- summarize: claims

Summarized == summary_out.called

\* The lines of the string summarize returned.
OutLines == split_lines(summary_out.text)

\* C15: for a transcript whose segment list is empty, the error transcript
\* of a failed transcription included, summarize returns exactly
\* "No transcript content to summarize." in each of the formats txt, md and
\* json, and so no participant, key-point or other section.
C15_EmptyTranscriptHasNoContent ==
    (Summarized /\ GetSegments(summary_out.transcript) = <<>>) =>
        /\ summary_out.format \in {"txt", "md", "json"}
        /\ summary_out.text =
               <<"N", "o", " ", "t", "r", "a", "n", "s", "c", "r", "i", "p",
                 "t", " ", "c", "o", "n", "t", "e", "n", "t", " ", "t", "o",
                 " ", "s", "u", "m", "m", "a", "r", "i", "z", "e", ".">>

\* The error transcript of a failed transcription was summarized as json.
C15_Witness ==
    /\ Summarized
    /\ "error" \in DOMAIN summary_out.transcript
    /\ summary_out.transcript.segments = <<>>
    /\ summary_out.format = "json"
    /\ summary_out.text = NoContent

\* The section headers of the text and the Markdown rendering, in the order
\* participants, summary, key points, action items, keywords.
SectionHeaders ==
    IF summary_out.format = "md"
    THEN <<MdParticipantsHeader, MdSummaryHeader, MdKeyPointsHeader,
           MdActionItemsHeader, MdKeywordsHeader>>
    ELSE <<ParticipantsHeader, SummaryHeader, KeyPointsHeader,
           ActionItemsHeader, KeywordsHeader>>

\* The content of the five sections in the summary data rendered.
SectionContent ==
    <<summary_data.speakers, summary_data.summary_text,
      summary_data.key_points, summary_data.action_items,
      summary_data.keywords>>

HeaderEmitted(k) == \E i \in 1..Len(OutLines) : OutLines[i] = SectionHeaders[k]

HeaderLine(k) == CHOOSE i \in 1..Len(OutLines) : OutLines[i] = SectionHeaders[k]

\* A text or Markdown summary of a transcript with segments was rendered.
Rendered ==
    /\ Summarized
    /\ summary_out.format \in {"txt", "md"}
    /\ GetSegments(summary_out.transcript) # <<>>

\* C16: in the text and Markdown renderings a section header is emitted
\* only if the section has content, also when the speakers list is empty,
\* and the emitted sections are in the order participants, summary, key
\* points, action items, keywords.
C16_HeadersOnlyForNonEmptySections ==
    Rendered =>
        /\ \A k \in 1..5 : HeaderEmitted(k) => SectionContent[k] # <<>>
        /\ \A j, k \in 1..5 :
               (j < k /\ HeaderEmitted(j) /\ HeaderEmitted(k))
                   => HeaderLine(j) < HeaderLine(k)

\* The four sections after the participants are emitted exactly when they
\* have content, and the sections are in the fixed order.
OptionalSectionsOnlyWithContent ==
    Rendered =>
        /\ \A k \in 2..5 : HeaderEmitted(k) <=> SectionContent[k] # <<>>
        /\ \A j, k \in 1..5 :
               (j < k /\ HeaderEmitted(j) /\ HeaderEmitted(k))
                   => HeaderLine(j) < HeaderLine(k)

\* A segment of the list has text left after trimming.
HasSpokenSegment ==
    \E i \in 1..Len(segments) : strip(GetText(segments[i])) # <<>>

\* C18: for a transcript with at least one segment of non-empty trimmed
\* text, summarize(transcript, "txt") returns a non-empty string in which
\* every speaker label of such a segment is a line of the PARTICIPANTS
\* section.
C18_TextSummaryListsEverySpeaker ==
    (Summarized /\ summary_out.format = "txt" /\ HasSpokenSegment) =>
        /\ summary_out.text # <<>>
        /\ \E first \in 1..Len(OutLines) :
               /\ OutLines[first] =
                      <<"P", "A", "R", "T", "I", "C", "I", "P", "A", "N",
                        "T", "S", ":">>
               /\ \A i \in 1..Len(segments) :
                      strip(GetText(segments[i])) # <<>> =>
                          \E k \in (first + 1)..Len(OutLines) :
                              /\ OutLines[k] = <<" ", " ", "-", " ">>
                                                   \o GetSpeaker(segments[i])
                              /\ \A m \in first..k : OutLines[m] # <<>>

\* The Alice/Bob/Alice sample was summarized as text: Alice and Bob are
\* both lines of the PARTICIPANTS section.
C18_Witness ==
    /\ Summarized
    /\ summary_out.format = "txt"
    /\ segments = MeetingSample
    /\ \E i, j \in 1..Len(OutLines) :
           /\ OutLines[i] = <<" ", " ", "-", " ">> \o Alice
           /\ OutLines[j] = <<" ", " ", "-", " ">> \o Bob

\* ----------------------------------- transcript dump and parser: claims

\* The (speaker, text) pairs of a segment list, the text trimmed.
Pairs(segs) ==
    [i \in 1..Len(segs) |->
        <<GetSpeaker(segs[i]), strip(GetText(segs[i]))>>]

\* The pairs of the segments whose trimmed text is not empty.
NonEmptyPairs(segs) ==
    LET HasText(pair) == pair[2] # <<>>
    IN  SelectSeq(Pairs(segs), HasText)

\* The last parse read a file that save_transcript wrote.
ParsedDump == parsed.called /\ parsed.file.origin = "dump"

\* C13: parsing the plain-text dump of a transcript yields segments whose
\* (speaker, text) pairs are exactly the (speaker, trimmed text) pairs of
\* the original segments with non-empty trimmed text, in the same order,
\* none added or lost.
C13_DumpThenParseKeepsPairs ==
    ParsedDump =>
        Pairs(parsed.transcript.segments)
            = NonEmptyPairs(GetSegments(dump_transcript))

\* The round trip holds for a transcript of plain labels and one-line texts.
PlainRoundTrip ==
    (ParsedDump
        /\ \A i \in 1..Len(dump_transcript.segments) :
               dump_transcript.segments[i]
                   \in {Seg(Alice, HiText), Seg(Bob, BracketText),
                        Seg(Carol, BlankText), [text |-> HiText]})
        => C13_DumpThenParseKeepsPairs

\* What the stated rule makes of one line: a line of the shape
\* [<speaker>]: <text> gives the speaker between the first '[' and the
\* first following ']:' and the rest trimmed; any other line gives nothing.
RuleSegments(raw) ==
    LET line == strip(raw)
        close == find(<<"]", ":">>, line)
    IN  IF line # <<>> /\ line[1] = "[" /\ close >= 1
        THEN <<[speaker |-> SubSeq(line, 2, close),
                text |-> strip(SubSeq(line, close + 3, Len(line))),
                start |-> 0, end |-> 0]>>
        ELSE <<>>

RECURSIVE RuleParse(_, _)
RuleParse(lines, n) ==
    IF n = 0 THEN <<>>
    ELSE RuleParse(lines, n - 1) \o RuleSegments(lines[n])

\* C14: the parser produces a segment exactly for the lines of the shape
\* [<speaker>]: <text>, with the speaker everything between the first '['
\* and the first following ']:' and the text the remainder trimmed; parsed
\* segments have start = 0 and end = 0 and the duration is 10 times their
\* number.
C14_ParserFollowsLineShape ==
    parsed.called =>
        LET lines == split_lines(parsed.file.content)
        IN  /\ parsed.transcript.segments = RuleParse(lines, Len(lines))
            /\ parsed.transcript.duration
                   = 10 * Len(parsed.transcript.segments)

\* The placeholders and the estimated duration are as stated.
ParsedPlaceholders ==
    parsed.called =>
        /\ \A i \in 1..Len(parsed.transcript.segments) :
               /\ parsed.transcript.segments[i].start = 0
               /\ parsed.transcript.segments[i].end = 0
        /\ parsed.transcript.duration
               = 10 * Len(parsed.transcript.segments)

\* The last file written is a Markdown dump of dump_transcript.
MarkdownDump == transcript_file.origin = "markdown"

\* What the stated rule writes for the i-th segment with text: a heading
\* when it is the first one or its speaker differs from the one before,
\* then the text line.
HeadingRule(pairs) ==
    LET Block(i) ==
            (IF i = 1 \/ pairs[i][1] # pairs[i - 1][1]
             THEN <<"\n", "#", "#", " ">> \o pairs[i][1] \o <<"\n", "\n">>
             ELSE <<>>)
                \o pairs[i][2] \o <<"\n">>
    IN  join(<<>>, [i \in 1..Len(pairs) |-> Block(i)])

\* C21: in the Markdown dump a segment whose trimmed text is empty writes
\* nothing, a "## <speaker>" heading precedes a segment with text exactly
\* when it is the first such segment or its speaker differs from the
\* speaker of the previous segment with text, and the text lines follow in
\* segment order.
C21_MarkdownHeadingOnSpeakerChange ==
    MarkdownDump =>
        \E now \in DumpClock :
            transcript_file.content
                = MdMeetingTranscript \o MdDatePrefix \o now \o <<"\n", "\n">>
                      \o HeadingRule(NonEmptyPairs(GetSegments(dump_transcript)))

\* Two segments of Alice around a blank one of Carol share one heading, and
\* Bob's segment gets its own.
C21_Witness ==
    /\ MarkdownDump
    /\ dump_transcript.segments
           = <<Seg(Alice, HiText), Seg(Carol, BlankText), Seg(Alice, HiText)>>
    /\ \E now \in DumpClock :
           transcript_file.content
               = MdMeetingTranscript \o MdDatePrefix \o now
                     \o <<"\n", "\n", "\n", "#", "#", " ", "A", "l", "i", "c",
                          "e", "\n", "\n", "h", "i", ".", "\n", "h", "i", ".",
                          "\n">>

\* ------------------------------------------------------ recording: claims

\* The last call has returned to its caller.
Returned(op) == last.op = op /\ last.done

\* C1: startRecording called while a session is active returns False and
\* leaves the session as it was: same destination path (in the service and
\* in the app), same buffer, same capture thread, same recording flags.
C1_StartWhileRecordingIsNoOpFailure ==
    (Returned("start") /\ last.wasRecording /\ last.appWasRecording) =>
        /\ ~last.ok
        /\ output_path = last.prePath
        /\ current_recording_path = last.preAppPath
        /\ session = last.preSession
        /\ recording_thread = last.preThread
        /\ is_recording /\ app_is_recording

\* C2: whenever stop() has read the buffer to encode it, the capture loop of
\* that session had already exited.
C2_StopReadsBufferAfterLoopExit ==
    (Returned("stop") /\ (last.wrote \/ last.saveFailed)) =>
        recording_thread \notin last.aliveAtRead

\* C3: at most one capture loop is alive at any time, and every chunk in the
\* buffer was read by the loop of the session that owns the buffer, from that
\* session's stream.
C3_SessionsAreIndependent ==
    /\ Cardinality(AliveLoops) <= 1
    /\ \A i \in 1..Len(frames) :
           frames[i].by = session /\ frames[i].from = session

\* C4: stop returns a path only if a session was recording, a destination
\* path was supplied and at least one chunk was captured, both in
\* RecordingService.stop_recording and in the app's stop_recording.
C4_StopReturnsPathOnlyIfCaptured ==
    (Returned("stop") /\ (last.svcPath # NoPath \/ last.appPath # NoPath)) =>
        /\ last.wasRecording /\ last.appWasRecording
        /\ last.prePath # NoPath
        /\ last.nframes >= 1

\* The service's half of C4 alone.
ServiceStopReturnsPathOnlyIfCaptured ==
    (Returned("stop") /\ last.svcPath # NoPath) =>
        last.wasRecording /\ last.prePath # NoPath /\ last.nframes >= 1

\* C5: when writing the WAV file fails during stop, nothing propagates and
\* no path is reported: none is returned by the service and by the app, and
\* nothing is added to the list of recordings.
C5_FailedSaveReportsNoPath ==
    (Returned("stop") /\ last.saveFailed) =>
        /\ ~last.raised
        /\ last.svcPath = NoPath
        /\ last.appPath = NoPath
        /\ Len(recordings) = last.preRecordings

\* The service's half of C5 alone.
ServiceFailedSaveReturnsNone ==
    (Returned("stop") /\ last.saveFailed) =>
        ~last.raised /\ last.svcPath = NoPath

\* The capture loop of the session that owns the buffer has ended on a
\* device read error.
SessionLoopFailed ==
    /\ recording_thread # 0
    /\ recording_thread = session
    /\ loops[recording_thread].failed

\* C6: once the session's capture loop has ended on a read error, it stays
\* ended and the buffer keeps exactly the chunks it held, until the next
\* start(); a stop() whose write succeeds encodes exactly those chunks, in
\* order, and returns the path.
C6_ReadFailureKeepsCapturedChunks ==
    [][SessionLoopFailed =>
          /\ loops'[recording_thread].pc = "done"
          /\ session' = session => frames' = frames
          /\ (pc = "stop_save" /\ pc' = "idle" /\ last'.wrote) =>
                 /\ last'.svcPath = output_path
                 /\ disk'[output_path] = frames
                 /\ \A i, j \in 1..Len(frames) :
                        i < j => frames[i].n < frames[j].n]_vars

\* C19: in every state duration() is (number of chunks in the buffer) x
\* chunk size / sample rate, and 0 for an empty buffer; with the defaults a
\* buffer of N chunks gives N x 1024 / 44100.
C19_DurationIsChunksTimesChunkSizeOverRate ==
    /\ LET now == get_recording_duration(frames)
       IN  /\ now.den > 0
           /\ now.num * 44100 = Len(frames) * 1024 * now.den
    /\ duration_call.called =>
           /\ duration_call.value.den > 0
           /\ duration_call.value.num * 44100
                  = duration_call.nframes * 1024 * duration_call.value.den
           /\ duration_call.nframes = 0 => duration_call.value.num = 0

\* The duration of a buffer of two chunks was read: 2048 / 44100.
C19_Witness ==
    /\ duration_call.called
    /\ duration_call.nframes = 2
    /\ duration_call.value = [num |-> 2048, den |-> 44100]

\* stop() of the session of loop t has cleared the recording flag: the flag
\* is down, or a later session has begun.
StopIssued(t) ==
    /\ loops[t].pc # "none"
    /\ session > t \/ ~is_recording

\* C20: once stop() has cleared the recording flag, the capture loop of the
\* session appends at most the chunk whose read was in flight and then
\* exits: after the stop of its own session no loop enters another read.
C20_NoLoopReadsAfterItsStop ==
    [][\A t \in Threads :
           (StopIssued(t) /\ loops[t].pc = "check")
               => loops'[t].pc # "reading"]_vars

\* While the flag stays down, a loop at its check leaves: the cancellation
\* is cooperative as long as no new session starts.
LoopLeavesWhileFlagIsDown ==
    [][\A t \in Threads :
           (~is_recording /\ loops[t].pc = "check")
               => loops'[t].pc \in {"check", "done"}]_vars

\* No call of startRecording or stopRecording is in progress.
NoCallInProgress == pc = "idle"

\* The last call was a startRecording whose device open raised.
StartOpenFailed ==
    NoCallInProgress /\ last.op = "start" /\ last.done /\ last.raised

\* C23: when opening the audio device fails during start the service is
\* left idle (its flag is false and it has no capture loop), the start
\* reports failure, and a later start that succeeds has launched a capture
\* loop; the flag is never set, between calls, for a session whose capture
\* loop was never started.
C23_FailedOpenLeavesServiceIdle ==
    /\ StartOpenFailed => ~is_recording /\ ~last.ok
    /\ (NoCallInProgress /\ is_recording) =>
           session # 0 /\ loops[session].pc # "none"
    /\ (NoCallInProgress /\ last.op = "start" /\ last.ok
           /\ ~last.appWasRecording) =>
           loops[starts].pc # "none"

\* The failure itself is reported: the start returns False and the app's
\* flag stays as it was.
FailedOpenIsReported ==
    StartOpenFailed =>
        ~last.ok /\ app_is_recording = last.appWasRecording

\* C24: whenever no call is in progress the app's is_recording flag equals
\* the service's is_recording flag, also after calls in which the device
\* open or the stream teardown raised.
C24_AppFlagEqualsServiceFlag ==
    NoCallInProgress => app_is_recording = is_recording

\* A call that found the two flags equal and in which nothing raised leaves
\* them equal.
FlagsAgreeAfterCleanCall ==
    (NoCallInProgress /\ last.done /\ ~last.raised
        /\ last.wasRecording = last.appWasRecording)
        => app_is_recording = is_recording

====
